---- MODULE Spec2Model ----
(***************************************************************************)
(* Request security and validation pipeline of the Virtual Specs try-on    *)
(* service (src/app.py): CSRF token issuance and verification, the         *)
(* session-stored sliding-window rate limiter, the upload endpoint, the    *)
(* input sanitizer and the security-header decoration, composed by the     *)
(* decorator stacks of the routes.                                         *)
(*                                                                         *)
(* Text (filenames, tokens, event types) is a sequence of one-character    *)
(* strings.  Flask's `session` is the per-client dictionary the code reads *)
(* and writes; what the code stores in it is what the next request of the  *)
(* same client finds.  Time is counted in whole seconds.                   *)
(***************************************************************************)
EXTENDS Integers, Sequences, FiniteSets, TLC

VARIABLES
    now,        \* the wall clock, datetime.now() / time.time(), in seconds
    session,    \* per client: the keys of the session dictionary and their values
    uploads,    \* the upload directory: stored name -> content written
    appLog,     \* what app.logger.warning has recorded, in order
    resp,       \* the last request and the response that left the process
    issued,     \* every token secrets.token_urlsafe has returned so far
    retired,    \* <<client, token>>: tokens whose session has expired
    allowed,    \* per client: when the rate limiter let a request of the session through
    nreq,       \* number of requests handled so far
    ticks,      \* number of clock steps so far
    call,       \* the last direct call of a sanitizer: its argument and result
    flight      \* per request in progress: how far its rate_limit wrapper has run

vars == <<now, session, uploads, appLog, resp, issued, retired, allowed, nreq, ticks,
          call, flight>>

----------------------------------------------------------------------------
(* Bounds of the model *)

NumTokens == 2
MaxRequests == 3
MaxTicks == 1
MaxFlightRequests == 4

(* Program constants *)

RATE_MAX_REQUESTS == 10
RATE_WINDOW == 60
DAY_SECONDS == 86400
FILENAME_LIMIT == 100

Sessions == {"A", "B"}
ClientIPs == {"10.0.0.1"}
MutatingMethods == {"POST", "PUT", "DELETE", "PATCH"}

----------------------------------------------------------------------------
(* Text helpers *)

UpperToLower ==
    [c \in {"A","B","C","D","E","F","G","H","I","J","K","L","M","N","O","P",
            "Q","R","S","T","U","V","W","X","Y","Z"} |->
        CASE c = "A" -> "a" [] c = "B" -> "b" [] c = "C" -> "c" [] c = "D" -> "d"
          [] c = "E" -> "e" [] c = "F" -> "f" [] c = "G" -> "g" [] c = "H" -> "h"
          [] c = "I" -> "i" [] c = "J" -> "j" [] c = "K" -> "k" [] c = "L" -> "l"
          [] c = "M" -> "m" [] c = "N" -> "n" [] c = "O" -> "o" [] c = "P" -> "p"
          [] c = "Q" -> "q" [] c = "R" -> "r" [] c = "S" -> "s" [] c = "T" -> "t"
          [] c = "U" -> "u" [] c = "V" -> "v" [] c = "W" -> "w" [] c = "X" -> "x"
          [] c = "Y" -> "y" [] c = "Z" -> "z"]

LowerChar(c) == IF c \in DOMAIN UpperToLower THEN UpperToLower[c] ELSE c

Lower(t) == [i \in 1..Len(t) |-> LowerChar(t[i])]

Digits == {"0","1","2","3","4","5","6","7","8","9"}
Letters == DOMAIN UpperToLower \cup {UpperToLower[c] : c \in DOMAIN UpperToLower}
WordChars == Letters \cup Digits \cup {"_"}
SpaceChars == {" ", "\n", "\t", "\r"}

\* t[i..j], empty when j < i
Slice(t, i, j) == IF j < i THEN <<>> ELSE SubSeq(t, i, j)

\* lit occurs in t at position i, compared case-insensitively when ic
LitAt(t, i, lit, ic) ==
    /\ i >= 1
    /\ i + Len(lit) - 1 <= Len(t)
    /\ \A k \in 1..Len(lit) :
          IF ic THEN LowerChar(t[i + k - 1]) = LowerChar(lit[k])
                ELSE t[i + k - 1] = lit[k]

DigitOf(n) ==
    CASE n = 0 -> "0" [] n = 1 -> "1" [] n = 2 -> "2" [] n = 3 -> "3" [] n = 4 -> "4"
      [] n = 5 -> "5" [] n = 6 -> "6" [] n = 7 -> "7" [] n = 8 -> "8" [] n = 9 -> "9"

\* str(int(t))
RECURSIVE IntToStr(_)
IntToStr(n) == IF n < 10 THEN <<DigitOf(n)>> ELSE IntToStr(n \div 10) \o <<DigitOf(n % 10)>>

----------------------------------------------------------------------------
(* CSRF guard *)

\* the values secrets.token_urlsafe(32) may return
TokenSpace == {<<"t", "k">> \o IntToStr(i) : i \in 1..NumTokens}
\* what a client may put in the X-CSRFToken header or the csrf_token form field
PresentedTokens == TokenSpace \cup {<<>>, <<"t", "k">>}

EmptySession == [keys |-> {}, csrf_token |-> <<>>, rate_limits |-> <<>>]

\* secrets.compare_digest: equal length and no differing position
compare_digest(a, b) ==
    /\ Len(a) = Len(b)
    /\ Cardinality({i \in 1..Len(a) : a[i] # b[i]}) = 0

\* variant: startswith instead of a full comparison
validate_csrf_token_prefix(sess, token) ==
    IF token = <<>> \/ "csrf_token" \notin sess.keys
    THEN FALSE
    ELSE /\ Len(token) <= Len(sess.csrf_token)
         /\ \A i \in 1..Len(token) : token[i] = sess.csrf_token[i]

\* variant: presence of both tokens without the comparison
validate_csrf_token_nocompare(sess, token) ==
    ~(token = <<>> \/ "csrf_token" \notin sess.keys)

validate_csrf_token(sess, token) ==
    IF token = <<>> \/ "csrf_token" \notin sess.keys
    THEN FALSE
    ELSE compare_digest(token, sess.csrf_token)

\* variant: a new token on every call
generate_csrf_token_always(sess, fresh) ==
    [sess EXCEPT !.keys = @ \cup {"csrf_token"}, !.csrf_token = fresh]

\* variant: a fixed token instead of a random one
generate_csrf_token_fixed(sess, fresh) ==
    IF "csrf_token" \notin sess.keys
    THEN [sess EXCEPT !.keys = @ \cup {"csrf_token"}, !.csrf_token = <<"t", "k", "1">>]
    ELSE sess

\* generate_csrf_token with `fresh` the value secrets.token_urlsafe returns
\* if it is called: the session after the call
generate_csrf_token(sess, fresh) ==
    IF "csrf_token" \notin sess.keys
    THEN [sess EXCEPT !.keys = @ \cup {"csrf_token"}, !.csrf_token = fresh]
    ELSE sess

----------------------------------------------------------------------------
(* Sanitizer *)

L_script_open == <<"<","s","c","r","i","p","t">>
L_script_close == <<"<","/","s","c","r","i","p","t",">">>
L_javascript == <<"j","a","v","a","s","c","r","i","p","t",":">>
L_on == <<"o","n">>
L_expression == <<"e","x","p","r","e","s","s","i","o","n">>
L_url == <<"u","r","l">>
L_import == <<"@","i","m","p","o","r","t">>
L_binding == <<"b","i","n","d","i","n","g">>

\* <script[^>]*>.*?</script> matches t from position i; '.' matches a
\* newline only under re.DOTALL
ScriptBlockAt(t, i, dotall) ==
    /\ LitAt(t, i, L_script_open, TRUE)
    /\ \E j \in (i + 7)..Len(t) :
          /\ t[j] = ">"
          /\ \A m \in (i + 7)..(j - 1) : t[m] # ">"
          /\ \E k \in (j + 1)..Len(t) :
                /\ LitAt(t, k, L_script_close, TRUE)
                /\ dotall \/ \A m \in (j + 1)..(k - 1) : t[m] # "\n"

\* lit\s*ch matches t from position i
LitSpaceCharAt(t, i, lit, ch) ==
    /\ LitAt(t, i, lit, TRUE)
    /\ \E k \in (i + Len(lit))..Len(t) :
          /\ t[k] = ch
          /\ \A m \in (i + Len(lit))..(k - 1) : t[m] \in SpaceChars

\* on\w+\s*= matches t from position i
OnHandlerAt(t, i) ==
    /\ LitAt(t, i, L_on, TRUE)
    /\ \E j \in (i + 2)..Len(t) :
          /\ \A m \in (i + 2)..j : t[m] \in WordChars
          /\ \E k \in (j + 1)..Len(t) :
                /\ t[k] = "="
                /\ \A m \in (j + 1)..(k - 1) : t[m] \in SpaceChars

DANGEROUS_PATTERNS ==
    <<"script_block", "javascript_uri", "event_handler", "css_expression",
      "css_url", "css_import", "css_binding">>

\* re.search(pattern, text, re.IGNORECASE)
re_search(pattern, t) ==
    \E i \in 1..Len(t) :
        CASE pattern = "script_block"   -> ScriptBlockAt(t, i, FALSE)
          [] pattern = "javascript_uri" -> LitAt(t, i, L_javascript, TRUE)
          [] pattern = "event_handler"  -> OnHandlerAt(t, i)
          [] pattern = "css_expression" -> LitSpaceCharAt(t, i, L_expression, "(")
          [] pattern = "css_url"        -> LitSpaceCharAt(t, i, L_url, "(")
          [] pattern = "css_import"     -> LitAt(t, i, L_import, TRUE)
          [] pattern = "css_binding"    -> LitSpaceCharAt(t, i, L_binding, ":")

MinOf(S) == CHOOSE x \in S : \A y \in S : x <= y

\* position of the last character of the script block that starts at i
\* (re.IGNORECASE | re.DOTALL, '.*?' lazy)
ScriptBlockEnd(t, i) ==
    LET j == MinOf({x \in (i + 7)..Len(t) : t[x] = ">"})
        k == MinOf({x \in (j + 1)..Len(t) : LitAt(t, x, L_script_close, TRUE)})
    IN  k + Len(L_script_close) - 1

\* position of the '=' that ends the event-handler attribute starting at i
OnHandlerEnd(t, i) ==
    MinOf({k \in (i + 3)..Len(t) :
              /\ t[k] = "="
              /\ \E j \in (i + 2)..(k - 1) :
                    /\ \A m \in (i + 2)..j : t[m] \in WordChars
                    /\ \A m \in (j + 1)..(k - 1) : t[m] \in SpaceChars})

RECURSIVE StripScripts(_, _)
StripScripts(t, i) ==
    IF i > Len(t) THEN <<>>
    ELSE IF ScriptBlockAt(t, i, TRUE)
         THEN StripScripts(t, ScriptBlockEnd(t, i) + 1)
         ELSE <<t[i]>> \o StripScripts(t, i + 1)

RECURSIVE StripHandlers(_, _)
StripHandlers(t, i) ==
    IF i > Len(t) THEN <<>>
    ELSE IF OnHandlerAt(t, i)
         THEN StripHandlers(t, OnHandlerEnd(t, i) + 1)
         ELSE <<t[i]>> \o StripHandlers(t, i + 1)

RECURSIVE StripLit(_, _, _)
StripLit(t, lit, i) ==
    LET hits == {k \in i..Len(t) : LitAt(t, k, lit, TRUE)}
    IN  IF i > Len(t) THEN <<>>
        ELSE IF hits = {} THEN Slice(t, i, Len(t))
        ELSE Slice(t, i, MinOf(hits) - 1) \o StripLit(t, lit, MinOf(hits) + Len(lit))

EscapeChar(c) ==
    CASE c = "&"  -> <<"&","a","m","p",";">>
      [] c = "<"  -> <<"&","l","t",";">>
      [] c = ">"  -> <<"&","g","t",";">>
      [] c = "\"" -> <<"&","q","u","o","t",";">>
      [] c = "'"  -> <<"&","#","x","2","7",";">>
      [] OTHER    -> <<c>>

RECURSIVE html_escape(_)
html_escape(t) ==
    IF t = <<>> THEN <<>> ELSE EscapeChar(Head(t)) \o html_escape(Tail(t))

clean_html(t) ==
    IF t = <<>> THEN <<>>
    ELSE html_escape(StripLit(StripHandlers(StripScripts(t, 1), 1), L_javascript, 1))

\* the deny patterns that match t, by their position in DANGEROUS_PATTERNS
MatchingPatterns(t) ==
    {p \in 1..Len(DANGEROUS_PATTERNS) : re_search(DANGEROUS_PATTERNS[p], t)}

\* sanitize_input: the returned text and the warnings it logs
sanitize_input(t) ==
    IF t = <<>> THEN [out |-> <<>>, logged |-> <<>>]
    ELSE IF MatchingPatterns(t) # {}
         THEN [out |-> <<>>,
               logged |-> <<[event |-> "dangerous_pattern",
                             pattern |-> DANGEROUS_PATTERNS[MinOf(MatchingPatterns(t))]]>>]
         ELSE [out |-> clean_html(t), logged |-> <<>>]

----------------------------------------------------------------------------
(* Responses and headers *)

CSP_VALUE == "default-src 'self'; ... frame-src 'none';"

\* the headers the secure_headers decorator sets
SecureHeaderSet ==
    { <<"X-Content-Type-Options", "nosniff">>,
      <<"X-Frame-Options", "DENY">>,
      <<"X-XSS-Protection", "1; mode=block">>,
      <<"Strict-Transport-Security", "max-age=31536000; includeSubDomains">>,
      <<"Referrer-Policy", "strict-origin-when-cross-origin">>,
      <<"Content-Security-Policy", CSP_VALUE>> }

\* app.config.get('ENVIRONMENT'): no line of the program sets it
ENVIRONMENT == "unset"

\* the headers the after_request hook sets on every response
AfterRequestHeaders ==
    { <<"Access-Control-Allow-Origin", "*">>,
      <<"Access-Control-Allow-Headers", "Content-Type,Authorization,X-CSRFToken">>,
      <<"Access-Control-Allow-Methods", "GET,PUT,POST,DELETE,OPTIONS">>,
      <<"Access-Control-Allow-Credentials", "true">>,
      <<"X-Content-Type-Options", "nosniff">>,
      <<"X-Frame-Options", "DENY">>,
      <<"X-XSS-Protection", "1; mode=block">>,
      <<"Referrer-Policy", "strict-origin-when-cross-origin">> }
    \cup (IF ENVIRONMENT = "production"
          THEN {<<"Content-Security-Policy", CSP_VALUE>>} ELSE {})

after_request(headers) == headers \cup AfterRequestHeaders

\* what a view function hands back: jsonify(...) is a Response object,
\* `jsonify(...), code` is a tuple, and a call may raise instead
Response(status, body, token) ==
    [type |-> "Response", status |-> status, body |-> body, token |-> token,
     headers |-> {}, success |-> "absent"]
TupleOf(status, body) ==
    [type |-> "tuple", status |-> status, body |-> body, token |-> <<>>,
     headers |-> {}, success |-> "absent"]
Raise(exc) ==
    [type |-> "raise", status |-> 0, body |-> exc, token |-> <<>>, headers |-> {},
     success |-> "absent"]

\* the 'success' member of a JSON body, where the code writes one
Succeeded(ret) == [ret EXCEPT !.success = "true"]
Failed(ret) == [ret EXCEPT !.success = "false"]

\* the body of the secure_headers decorator, applied to what the wrapped
\* function returned: response.headers[...] = ... needs a Response object
secure_headers(ret) ==
    CASE ret.type = "raise"    -> ret
      [] ret.type = "tuple"    -> Raise("AttributeError")
      [] ret.type = "Response" -> [ret EXCEPT !.headers = @ \cup SecureHeaderSet]

----------------------------------------------------------------------------
(* Rate limiter *)

\* timedelta.seconds: the seconds field of the normalised difference,
\* 0 <= seconds < 86400, the days held apart
timedelta_seconds(d) == d % DAY_SECONDS

recent_requests(requests, current_time, window) ==
    LET InWindow(req_time) == timedelta_seconds(current_time - req_time) < window
    IN  SelectSeq(requests, InWindow)

rate_limit_key(client_ip, endpoint) == <<client_ip, endpoint>>

\* variant: the comparison with the limit off by one
rate_limit_off_by_one(sess, client_ip, endpoint, current_time, max_requests, window) ==
    LET s1 == IF "rate_limits" \notin sess.keys
              THEN [sess EXCEPT !.keys = @ \cup {"rate_limits"}, !.rate_limits = <<>>]
              ELSE sess
        key == rate_limit_key(client_ip, endpoint)
        present == key \in DOMAIN s1.rate_limits
        recent == IF present
                  THEN recent_requests(s1.rate_limits[key], current_time, window)
                  ELSE <<>>
    IN  IF present /\ Len(recent) > max_requests
        THEN [allowed |-> FALSE, sess |-> s1]
        ELSE [allowed |-> TRUE,
              sess |-> [s1 EXCEPT !.rate_limits =
                           (key :> Append(recent, current_time)) @@ @]]

\* a limiter that starts the session dictionary anew when it holds no
\* 'rate_limits' yet
rate_limit_new_session(sess, client_ip, endpoint, current_time, max_requests, window) ==
    LET s1 == IF "rate_limits" \notin sess.keys
              THEN [keys |-> {"rate_limits"}, csrf_token |-> <<>>, rate_limits |-> <<>>]
              ELSE sess
        key == rate_limit_key(client_ip, endpoint)
        present == key \in DOMAIN s1.rate_limits
        recent == IF present
                  THEN recent_requests(s1.rate_limits[key], current_time, window)
                  ELSE <<>>
    IN  IF present /\ Len(recent) >= max_requests
        THEN [allowed |-> FALSE, sess |-> s1]
        ELSE [allowed |-> TRUE,
              sess |-> [s1 EXCEPT !.rate_limits =
                           (key :> Append(recent, current_time)) @@ @]]

\* a limiter that also records the calls it denies
rate_limit_record_denied(sess, client_ip, endpoint, current_time, max_requests, window) ==
    LET s1 == IF "rate_limits" \notin sess.keys
              THEN [sess EXCEPT !.keys = @ \cup {"rate_limits"}, !.rate_limits = <<>>]
              ELSE sess
        key == rate_limit_key(client_ip, endpoint)
        present == key \in DOMAIN s1.rate_limits
        recent == IF present
                  THEN recent_requests(s1.rate_limits[key], current_time, window)
                  ELSE <<>>
    IN  [allowed |-> ~(present /\ Len(recent) >= max_requests),
         sess |-> [s1 EXCEPT !.rate_limits =
                      (key :> Append(recent, current_time)) @@ @]]

\* the body of the rate_limit decorator up to the call of the wrapped
\* function: whether the call is allowed, and the session it leaves
rate_limit(sess, client_ip, endpoint, current_time, max_requests, window) ==
    LET s1 == IF "rate_limits" \notin sess.keys
              THEN [sess EXCEPT !.keys = @ \cup {"rate_limits"}, !.rate_limits = <<>>]
              ELSE sess
        key == rate_limit_key(client_ip, endpoint)
        present == key \in DOMAIN s1.rate_limits
        recent == IF present
                  THEN recent_requests(s1.rate_limits[key], current_time, window)
                  ELSE <<>>
    IN  IF present /\ Len(recent) >= max_requests
        THEN [allowed |-> FALSE, sess |-> s1]
        ELSE [allowed |-> TRUE,
              sess |-> [s1 EXCEPT !.rate_limits =
                           (key :> Append(recent, current_time)) @@ @]]

\* The statements of the rate_limit wrapper, one at a time, as a request
\* running beside another one of the same session executes them.
\* Lines 177-191: the session dictionary is prepared, the log of the key
\* is read and filtered, and the limit is tested.
rate_limit_read(sess, client_ip, endpoint, current_time, max_requests, window) ==
    LET s1 == IF "rate_limits" \notin sess.keys
              THEN [sess EXCEPT !.keys = @ \cup {"rate_limits"}, !.rate_limits = <<>>]
              ELSE sess
        key == rate_limit_key(client_ip, endpoint)
        present == key \in DOMAIN s1.rate_limits
        recent == IF present
                  THEN recent_requests(s1.rate_limits[key], current_time, window)
                  ELSE <<>>
    IN  [sess |-> s1, present |-> present, recent |-> recent,
         denied |-> present /\ Len(recent) >= max_requests]

\* Lines 194 and 196: the filtered list (or a new one) is assigned to the key
rate_limit_store(sess, client_ip, endpoint, recent) ==
    [sess EXCEPT !.keys = @ \cup {"rate_limits"},
                 !.rate_limits = (rate_limit_key(client_ip, endpoint) :> recent) @@ @]

\* Line 198: the time read at line 183 is appended to the list the key holds
rate_limit_append(sess, client_ip, endpoint, current_time) ==
    LET key == rate_limit_key(client_ip, endpoint)
        held == IF key \in DOMAIN sess.rate_limits THEN sess.rate_limits[key] ELSE <<>>
    IN  rate_limit_store(sess, client_ip, endpoint, Append(held, current_time))

----------------------------------------------------------------------------
(* The security-event route *)

T_login == <<"l","o","g","i","n">>
T_bold == <<"<","b",">">>
T_script == <<"<","s","c","r","i","p","t",">","x","<","/","s","c","r","i","p","t",">">>

EventTypes == {<<>>, T_login, T_script}

\* request.get_json(): no JSON body, the empty object, or an object with
\* an event_type
Bodies ==
    { [json |-> "none", event_type |-> <<>>],
      [json |-> "empty", event_type |-> <<>>] }
    \cup { [json |-> "object", event_type |-> e] : e \in EventTypes }

\* sanitize_input on the event types a request may carry
Sanitized == [t \in EventTypes |-> sanitize_input(t)]

\* the helper defined first under the name log_security_event
log_security_event_helper(log, event_type) ==
    Append(log, [event |-> "security_event", pattern |-> "none"])

\* the decorators of the route, outermost first
SecurityEventStack == <<"csrf_protected", "rate_limit", "secure_headers", "view">>

Stage(name, nargs) == <<name, nargs>>

\* Call(stack, c, nargs): the call of the function decorated by `stack`
\* with nargs positional arguments, in the context c of the request:
\* c.sess the session, c.log the log, c.trace the stages entered so far.
\* The view function of the route is named log_security_event as well, so
\* at the time of a request the module-level name denotes the decorated
\* route: the call log_security_event(event_type, details) in the view
\* enters the decorated route again, with two arguments.
RECURSIVE Call(_, _, _)
Call(stack, c, nargs) ==
    LET d == Head(stack)
        c1 == [c EXCEPT !.trace = Append(@, Stage(d, nargs))]
    IN
    CASE d = "csrf_protected" ->
            IF /\ c.req.method \in MutatingMethods
               /\ ~validate_csrf_token(c.sess, c.req.token)
            THEN [c1 EXCEPT !.ret = TupleOf(403, "CSRF token validation failed")]
            ELSE Call(Tail(stack), c1, nargs)
      [] d = "rate_limit" ->
            LET rl == rate_limit(c.sess, c.req.ip, "log_security_event", c.req.now,
                                 RATE_MAX_REQUESTS, RATE_WINDOW)
                c2 == [c1 EXCEPT !.sess = rl.sess]
            IN  IF ~rl.allowed
                THEN [c2 EXCEPT !.ret = TupleOf(429, "Rate limit exceeded")]
                ELSE Call(Tail(stack), c2, nargs)
      [] d = "secure_headers" ->
            LET r == Call(Tail(stack), c1, nargs)
            IN  [r EXCEPT !.ret = secure_headers(r.ret)]
      [] d = "view" ->
            IF nargs # 0
            THEN [c1 EXCEPT !.ret = Raise("TypeError")]
            ELSE IF c.req.body.json \in {"none", "empty"}
            THEN [c1 EXCEPT !.ret = TupleOf(400, "Invalid request data")]
            ELSE LET san == Sanitized[c.req.body.event_type]
                     c2 == [c1 EXCEPT !.log = @ \o san.logged]
                 IN  IF san.out = <<>>
                     THEN [c2 EXCEPT !.ret = TupleOf(400, "Event type is required")]
                     ELSE LET r == Call(SecurityEventStack, c2, 2)
                          IN  IF r.ret.type = "raise"
                              THEN [r EXCEPT !.ret =
                                       TupleOf(500, "Failed to log security event")]
                              ELSE [r EXCEPT !.ret =
                                       Succeeded(Response(200, "Security event logged", <<>>))]

\* what Flask makes of the return value of a view: a raised exception
\* reaches the 500 error handler
make_response(ret) ==
    IF ret.type = "raise"
    THEN [status |-> 500, body |-> "Internal server error", token |-> <<>>,
          headers |-> {}, success |-> "false"]
    ELSE [status |-> ret.status, body |-> ret.body, token |-> ret.token,
          headers |-> ret.headers, success |-> ret.success]

NoRet == Raise("none")

----------------------------------------------------------------------------
(* The upload route *)

ALLOWED_EXTENSIONS == {<<"p","n","g">>, <<"j","p","g">>, <<"j","p","e","g">>}
ImageContents == {"png"}
Contents == ImageContents \cup {"junk"}

F_png == <<"a",".","p","n","g">>
F_JPG == <<"a",".","J","P","G">>
F_txt == <<"a",".","t","x","t">>
F_traversal == <<".",".","/","a",".","p","n","g">>
F_noext == <<"a">>
F_dots == <<"a",".",".","p","n","g">>
\* a name one character over the limit of sanitize_filename, and ".png"
F_long == [i \in 1..(FILENAME_LIMIT + 1) |-> "a"] \o <<".","p","n","g">>
Filenames == {<<>>, F_png, F_JPG, F_txt, F_traversal, F_noext, F_dots, F_long}

\* position of the last '.' of t, 0 when there is none
LastDot(t) ==
    IF \E i \in 1..Len(t) : t[i] = "."
    THEN CHOOSE i \in 1..Len(t) : t[i] = "." /\ \A j \in (i + 1)..Len(t) : t[j] # "."
    ELSE 0

allowed_file(filename) ==
    /\ LastDot(filename) # 0
    /\ Lower(Slice(filename, LastDot(filename) + 1, Len(filename))) \in ALLOWED_EXTENSIONS

ReplaceChar(t, a, b) == [i \in 1..Len(t) |-> IF t[i] = a THEN b ELSE t[i]]

\* "_".join(t.split()): the whitespace-separated words of t, joined by
\* "_". A run of whitespace between two words leaves one "_" (at its
\* first character); whitespace before the first or after the last word
\* leaves nothing. The third argument is the position to start from.
JoinWords(t, i, started) ==
    LET IsGap(k) == /\ t[k] \in SpaceChars
                    /\ k > 1 /\ t[k - 1] \notin SpaceChars
                    /\ \E m \in (k + 1)..Len(t) : t[m] \notin SpaceChars
        marked == [k \in i..Len(t) |->
                     IF t[k] \notin SpaceChars THEN t[k]
                     ELSE IF IsGap(k) THEN "_" ELSE "drop"]
        shifted == [k \in 1..(Len(t) - i + 1) |-> marked[k + i - 1]]
        Kept(c) == c # "drop"
    IN  IF i > Len(t) THEN <<>> ELSE SelectSeq(shifted, Kept)

RECURSIVE StripChars(_, _)
StripChars(t, cs) ==
    IF t = <<>> THEN <<>>
    ELSE IF Head(t) \in cs THEN StripChars(Tail(t), cs)
    ELSE IF t[Len(t)] \in cs THEN StripChars(SubSeq(t, 1, Len(t) - 1), cs)
    ELSE t

\* werkzeug.utils.secure_filename on a POSIX host
secure_filename(filename) ==
    LET spaced == ReplaceChar(filename, "/", " ")
        joined == JoinWords(spaced, 1, FALSE)
        InSafe(c) == c \in WordChars \cup {".", "-"}
    IN  StripChars(SelectSeq(joined, InSafe), {".", "_"})

L_upload == <<"u","p","l","o","a","d","_">>

\* secure_filename on the filenames a request may carry
SecureNames == [f \in Filenames |-> secure_filename(f)]

stored_name(filename, t) == L_upload \o IntToStr(t) \o <<"_">> \o SecureNames[filename]

\* a character \w matches outside ASCII (CJK "middle"), which
\* secure_filename drops
NonAsciiWordChars == {"U+4E2D"}

\* sanitize_filename: the name the helper derives at time t
sanitize_filename(filename, t) ==
    IF filename = <<>> THEN L_upload \o IntToStr(t)
    ELSE LET Kept(c) == c \in WordChars \cup NonAsciiWordChars \cup SpaceChars
                                \cup {".", "-"}
             NotSlash(c) == c # "/"
             NotBackslash(c) == c # "\\"
             cleaned == SelectSeq(filename, Kept)
             nodots == StripLit(cleaned, <<".", ".">>, 1)
             nosep == SelectSeq(SelectSeq(nodots, NotSlash), NotBackslash)
             cut == Slice(nosep, 1, IF Len(nosep) < FILENAME_LIMIT
                                    THEN Len(nosep) ELSE FILENAME_LIMIT)
         IN  secure_filename(cut)

L_unknown_file == <<"u","n","k","n","o","w","n","_","f","i","l","e">>
L_jpg == <<".","j","p","g">>

\* sanitize_filename_input: sanitize_filename, with ".jpg" added to a
\* result without a dot
sanitize_filename_input(filename, t) ==
    IF filename = <<>> THEN L_unknown_file
    ELSE LET sanitized == sanitize_filename(filename, t)
         IN  IF LastDot(sanitized) = 0 THEN sanitized \o L_jpg ELSE sanitized

\* file.save(path): a file of that name is replaced
save_file(dir, name, content) ==
    {f \in dir : f.name # name} \cup {[name |-> name, content |-> content]}

\* validate_image_file: the validator the program defines
validate_image_file(file) ==
    IF ~file.present \/ file.filename = <<>> THEN [ok |-> FALSE, msg |-> "No file selected"]
    ELSE IF ~allowed_file(file.filename) THEN [ok |-> FALSE, msg |-> "Invalid file type"]
    ELSE IF file.oversize THEN [ok |-> FALSE, msg |-> "File too large"]
    ELSE IF file.content \notin ImageContents THEN [ok |-> FALSE, msg |-> "Invalid image file"]
    ELSE [ok |-> TRUE, msg |-> "Valid image file"]

\* an accepted upload already sits in the directory under that name
holds_accepted(dir, name) ==
    \E f \in dir : f.name = name /\ f.content \in ImageContents

\* an upload view whose read of request.files is outside the try block:
\* the body over MAX_CONTENT_LENGTH is answered by the 413 handler
upload_file_unguarded(file, dir, t) ==
    IF file.oversize
    THEN [ret |-> Failed(TupleOf(413, "FILE_TOO_LARGE")), dir |-> dir,
          wrote |-> FALSE, replaced |-> FALSE]
    ELSE IF ~file.present \/ file.filename = <<>>
    THEN [ret |-> Failed(TupleOf(400, "NO_FILE")), dir |-> dir,
          wrote |-> FALSE, replaced |-> FALSE]
    ELSE IF allowed_file(file.filename)
    THEN LET name == stored_name(file.filename, t)
             saved == save_file(dir, name, file.content)
         IN  IF file.content \in ImageContents
             THEN [ret |-> Succeeded(Response(200, "upload_ok", name)),
                   dir |-> saved, wrote |-> TRUE,
                   replaced |-> holds_accepted(dir, name)]
             ELSE [ret |-> Failed(TupleOf(500, "PROCESSING_ERROR")),
                   dir |-> saved, wrote |-> TRUE,
                   replaced |-> holds_accepted(dir, name)]
    ELSE [ret |-> Failed(TupleOf(400, "INVALID_FILE_TYPE")), dir |-> dir,
          wrote |-> FALSE, replaced |-> FALSE]

\* the view upload_file: what it returns and the directory it leaves.
\* A body over MAX_CONTENT_LENGTH makes the read of request.files raise
\* inside the try block.
upload_file(file, dir, t) ==
    IF file.oversize
    THEN [ret |-> Failed(TupleOf(500, "PROCESSING_ERROR")), dir |-> dir,
          wrote |-> FALSE, replaced |-> FALSE]
    ELSE IF ~file.present
    THEN [ret |-> Failed(TupleOf(400, "NO_FILE")), dir |-> dir,
          wrote |-> FALSE, replaced |-> FALSE]
    ELSE IF file.filename = <<>>
    THEN [ret |-> Failed(TupleOf(400, "NO_FILE")), dir |-> dir,
          wrote |-> FALSE, replaced |-> FALSE]
    ELSE IF allowed_file(file.filename)
    THEN LET name == stored_name(file.filename, t)
             saved == save_file(dir, name, file.content)
         IN  IF file.content \in ImageContents
             THEN [ret |-> Succeeded(Response(200, "upload_ok", name)),
                   dir |-> saved, wrote |-> TRUE,
                   replaced |-> holds_accepted(dir, name)]
             ELSE [ret |-> Failed(TupleOf(500, "PROCESSING_ERROR")),
                   dir |-> saved, wrote |-> TRUE,
                   replaced |-> holds_accepted(dir, name)]
    ELSE [ret |-> Failed(TupleOf(400, "INVALID_FILE_TYPE")), dir |-> dir,
          wrote |-> FALSE, replaced |-> FALSE]

NoFile == [present |-> FALSE, filename |-> <<>>, content |-> "junk", oversize |-> FALSE]

\* what the multipart body of an upload request may carry: no file, a
\* body over the size limit, an image under each filename, and a file
\* that is no image under an allowed and under a disallowed filename
Files ==
    {NoFile}
    \cup { [present |-> TRUE, filename |-> f, content |-> "png", oversize |-> TRUE] :
              f \in {F_png, F_txt} }
    \cup { [present |-> TRUE, filename |-> f, content |-> c, oversize |-> FALSE] :
              f \in Filenames, c \in ImageContents }
    \cup { [present |-> TRUE, filename |-> f, content |-> "junk", oversize |-> FALSE] :
              f \in {F_png, F_txt} }

----------------------------------------------------------------------------
(* The state machine *)

TickSteps == {1, RATE_WINDOW, DAY_SECONDS}

NoResp ==
    [route |-> "none", method |-> "none", sid |-> "none", token |-> <<>>,
     status |-> 0, body |-> "none", out |-> <<>>, headers |-> {},
     csrf_valid |-> FALSE, had_token |-> FALSE, trace |-> <<>>,
     body_in |-> [json |-> "none", event_type |-> <<>>],
     wrote |-> FALSE, logged |-> 0, prior |-> 0,
     success |-> "absent", file |-> NoFile, replaced |-> FALSE]

\* no sanitizer has been called directly yet
NoCall == [fn |-> "none", arg |-> <<>>, out |-> <<>>, logged |-> <<>>]

\* the requests that may be in progress at once, and one not in progress
Flights == {1, 2}
Idle == [pc |-> "idle", time |-> 0, present |-> FALSE, recent |-> <<>>]

Init ==
    /\ now = 0
    /\ session = [s \in Sessions |-> EmptySession]
    /\ uploads = {}
    /\ appLog = <<>>
    /\ resp = NoResp
    /\ issued = {}
    /\ retired = {}
    /\ allowed = [s \in Sessions |-> <<>>]
    /\ nreq = 0
    /\ ticks = 0
    /\ call = NoCall
    /\ flight = [r \in Flights |-> Idle]

\* the response that leaves the process for a view's return value
Outgoing(route, method, s, token, ret) ==
    LET made == make_response(ret)
    IN  [NoResp EXCEPT !.route = route, !.method = method, !.sid = s,
                       !.token = token, !.status = made.status,
                       !.body = made.body, !.out = made.token,
                       !.headers = after_request(made.headers),
                       !.csrf_valid = validate_csrf_token(session[s], token),
                       !.had_token = "csrf_token" \in session[s].keys,
                       !.success = made.success]

\* the passing of time
Tick(d) ==
    /\ ticks < MaxTicks
    /\ now' = now + d
    /\ ticks' = ticks + 1
    /\ UNCHANGED <<session, uploads, appLog, resp, issued, retired, allowed, nreq,
                   call, flight>>

\* the session of a client reaches PERMANENT_SESSION_LIFETIME and is gone
SessionExpire(s) ==
    /\ session[s] # EmptySession
    /\ session' = [session EXCEPT ![s] = EmptySession]
    /\ retired' = retired \cup
                    (IF "csrf_token" \in session[s].keys
                     THEN {<<s, session[s].csrf_token>>} ELSE {})
    /\ allowed' = [allowed EXCEPT ![s] = <<>>]
    /\ UNCHANGED <<now, uploads, appLog, resp, issued, nreq, ticks, call, flight>>

\* GET /csrf-token
GetCsrfToken(s) ==
    \E fresh \in TokenSpace \ issued :
        LET sess2 == generate_csrf_token(session[s], fresh)
            ret == secure_headers(Response(200, "csrf_token", sess2.csrf_token))
        IN  /\ session' = [session EXCEPT ![s] = sess2]
            /\ issued' = IF sess2.csrf_token = fresh THEN issued \cup {fresh} ELSE issued
            /\ resp' = Outgoing("csrf_token", "GET", s, <<>>, ret)
            /\ UNCHANGED <<now, uploads, appLog, retired, allowed, ticks, call, flight>>

\* the rate limiter of the request itself let it through
LimiterAllowed(trace) ==
    \E i \in 1..Len(trace) : trace[i] = Stage("rate_limit", 0) /\ i < Len(trace)

RecentAllowed(times, t) ==
    LET Within(x) == t - x < RATE_WINDOW IN SelectSeq(times, Within)

\* POST /api/security-event (the only method the route is registered for)
SecurityEvent(s, ip, token, body) ==
    LET c0 == [sess |-> session[s], log |-> appLog, trace |-> <<>>,
               ret |-> NoRet,
               req |-> [ip |-> ip, method |-> "POST", token |-> token,
                        body |-> body, now |-> now]]
        r == Call(SecurityEventStack, c0, 0)
        before == RecentAllowed(allowed[s], now)
    IN  /\ session' = [session EXCEPT ![s] = r.sess]
        /\ appLog' = r.log
        /\ allowed' = [allowed EXCEPT ![s] =
                         IF LimiterAllowed(r.trace) THEN Append(before, now)
                         ELSE before]
        /\ resp' = [Outgoing("security_event", "POST", s, token, r.ret)
                       EXCEPT !.trace = r.trace,
                              !.body_in = body,
                              !.logged = Len(r.log) - Len(appLog),
                              !.prior = Len(before)]
        /\ UNCHANGED <<now, uploads, issued, retired, ticks, call, flight>>

\* POST /upload (the only method the route is registered for)
Upload(s, token, file) ==
    LET r == upload_file(file, uploads, now)
    IN  /\ uploads' = r.dir
        /\ resp' = [Outgoing("upload", "POST", s, token, r.ret)
                       EXCEPT !.trace = <<Stage("view", 0)>>,
                              !.wrote = r.wrote, !.file = file,
                              !.replaced = r.replaced]
        /\ UNCHANGED <<now, session, appLog, issued, retired, allowed, ticks,
                       call, flight>>

Counted(A) == nreq < MaxRequests /\ A /\ nreq' = nreq + 1

TickAction == \E d \in TickSteps : Tick(d)
ExpireAction == \E s \in Sessions : SessionExpire(s)
CsrfTokenRequest == \E s \in Sessions : Counted(GetCsrfToken(s))
SecurityEventRequest ==
    \E s \in Sessions, ip \in ClientIPs, token \in PresentedTokens, body \in Bodies :
        Counted(SecurityEvent(s, ip, token, body))
UploadTokens == {session["A"].csrf_token, <<"t", "k">>}
UploadRequest ==
    \E token \in UploadTokens, file \in Files : Counted(Upload("A", token, file))
UploaderTokenRequest == Counted(GetCsrfToken("A"))

Next ==
    \/ TickAction
    \/ ExpireAction
    \/ CsrfTokenRequest
    \/ SecurityEventRequest

Spec == Init /\ [][Next]_vars

\* one client against the upload route, with the token endpoint beside it
NextUpload ==
    \/ TickAction
    \/ UploaderTokenRequest
    \/ UploadRequest

SpecUpload == Init /\ [][NextUpload]_vars

\* one client against the rate limiter: any number of requests, each
\* with the client's own token or a truncated one, and a body that
\* writes nothing to the log (one the view refuses, one it accepts)
RateBodies ==
    { [json |-> "empty", event_type |-> <<>>],
      [json |-> "object", event_type |-> T_login] }
RateTokens == {session["A"].csrf_token, <<"t", "k">>}

RateCsrfTokenRequest == GetCsrfToken("A") /\ UNCHANGED nreq
RateSecurityEventRequest ==
    \E ip \in ClientIPs, token \in RateTokens, body \in RateBodies :
        SecurityEvent("A", ip, token, body) /\ UNCHANGED nreq

NextRate ==
    \/ TickAction
    \/ RateCsrfTokenRequest
    \/ RateSecurityEventRequest

SpecRate == Init /\ [][NextRate]_vars

\* one network origin holding several session cookies: each session
\* fetches its token and posts with it, with a body the view refuses
ClientBody == [json |-> "empty", event_type |-> <<>>]

ClientCsrfTokenRequest == \E s \in Sessions : GetCsrfToken(s) /\ UNCHANGED nreq
ClientSecurityEventRequest ==
    \E s \in Sessions, ip \in ClientIPs :
        SecurityEvent(s, ip, session[s].csrf_token, ClientBody) /\ UNCHANGED nreq

NextClient ==
    \/ TickAction
    \/ ClientCsrfTokenRequest
    \/ ClientSecurityEventRequest

SpecClient == Init /\ [][NextClient]_vars

\* the sanitizers called directly, on texts and filenames of every kind
T_SCRIPT == <<"<","S","C","R","I","P","T",">","x","<","/","S","C","R","I","P","T",">">>
T_script_lines ==
    <<"h","i","<","s","c","r","i","p","t",">","\n","x","\n",
      "<","/","s","c","r","i","p","t",">","&">>
T_javascript == <<"J","a","v","a","S","c","r","i","p","t",":","x">>
T_onclick == <<"o","n","C","l","i","c","k"," ","=","x">>
T_url == <<"U","R","L"," ","(","x",")">>
T_import == <<"@","I","m","p","o","r","t">>
TextInputs ==
    {T_login, T_bold, T_script, T_SCRIPT, T_script_lines, T_javascript,
     T_onclick, T_url, T_import}

F_separators == <<".",".","/">>
F_stripped == <<"$","$">>
F_cjk == <<"a",".","U+4E2D",".","p","n","g">>
NameInputs ==
    {<<>>, F_png, F_traversal, F_noext, F_dots, F_long, F_separators,
     F_stripped, F_cjk}

SanitizeInputCall(t) ==
    LET r == sanitize_input(t)
    IN  /\ call' = [fn |-> "sanitize_input", arg |-> t, out |-> r.out,
                    logged |-> r.logged]
        /\ appLog' = appLog \o r.logged
        /\ UNCHANGED <<now, session, uploads, resp, issued, retired, allowed,
                       ticks, flight>>

SanitizeFilenameCall(f) ==
    /\ call' = [fn |-> "sanitize_filename_input", arg |-> f,
                out |-> sanitize_filename_input(f, now), logged |-> <<>>]
    /\ UNCHANGED <<now, session, uploads, appLog, resp, issued, retired, allowed,
                   ticks, flight>>

SanitizeInputAction == \E t \in TextInputs : Counted(SanitizeInputCall(t))
SanitizeFilenameAction == \E f \in NameInputs : Counted(SanitizeFilenameCall(f))

NextText ==
    \/ TickAction
    \/ SanitizeInputAction
    \/ SanitizeFilenameAction

SpecText == Init /\ [][NextText]_vars

\* Requests of one session served at once (a threaded server): each runs
\* the statements of the wrappers in order, and the statements of two
\* requests interleave.  The requests carry the session's token and a
\* body the view refuses.
FlightIP == CHOOSE ip \in ClientIPs : TRUE

\* csrf_protected, then rate_limit up to its test of the limit
FlightBegin(r) ==
    LET s == "A"
        token == session[s].csrf_token
        rd == rate_limit_read(session[s], FlightIP, "log_security_event", now,
                              RATE_MAX_REQUESTS, RATE_WINDOW)
        csrf == <<Stage("csrf_protected", 0)>>
    IN  /\ flight[r].pc = "idle"
        /\ nreq < MaxFlightRequests
        /\ nreq' = nreq + 1
        /\ IF ~validate_csrf_token(session[s], token)
           THEN /\ resp' = [Outgoing("security_event", "POST", s, token,
                                     TupleOf(403, "CSRF token validation failed"))
                               EXCEPT !.trace = csrf, !.body_in = ClientBody]
                /\ UNCHANGED <<session, flight>>
           ELSE /\ session' = [session EXCEPT ![s] = rd.sess]
                /\ IF rd.denied
                   THEN /\ resp' = [Outgoing("security_event", "POST", s, token,
                                             TupleOf(429, "Rate limit exceeded"))
                                       EXCEPT !.trace = Append(csrf, Stage("rate_limit", 0)),
                                              !.body_in = ClientBody]
                        /\ UNCHANGED flight
                   ELSE /\ flight' = [flight EXCEPT ![r] =
                                        [pc |-> "checked", time |-> now,
                                         present |-> rd.present, recent |-> rd.recent]]
                        /\ UNCHANGED resp
        /\ UNCHANGED <<now, uploads, appLog, issued, retired, allowed, ticks, call>>

\* the assignment of the filtered list to the key
FlightStore(r) ==
    /\ flight[r].pc = "checked"
    /\ session' = [session EXCEPT !["A"] =
                     rate_limit_store(@, FlightIP, "log_security_event",
                                      flight[r].recent)]
    /\ flight' = [flight EXCEPT ![r].pc = "stored"]
    /\ UNCHANGED <<now, uploads, appLog, resp, issued, retired, allowed, nreq,
                   ticks, call>>

\* the append of the request's time, and the wrapped function after it
FlightFinish(r) ==
    LET s == "A"
        sess2 == rate_limit_append(session[s], FlightIP, "log_security_event",
                                   flight[r].time)
        c0 == [sess |-> sess2, log |-> appLog,
               trace |-> <<Stage("csrf_protected", 0), Stage("rate_limit", 0)>>,
               ret |-> NoRet,
               req |-> [ip |-> FlightIP, method |-> "POST",
                        token |-> session[s].csrf_token,
                        body |-> ClientBody, now |-> flight[r].time]]
        res == Call(<<"secure_headers", "view">>, c0, 0)
    IN  /\ flight[r].pc = "stored"
        /\ session' = [session EXCEPT ![s] = res.sess]
        /\ appLog' = res.log
        /\ allowed' = [allowed EXCEPT ![s] = Append(@, flight[r].time)]
        /\ resp' = [Outgoing("security_event", "POST", s, session[s].csrf_token, res.ret)
                       EXCEPT !.trace = res.trace, !.body_in = ClientBody]
        /\ flight' = [flight EXCEPT ![r] = Idle]
        /\ UNCHANGED <<now, uploads, issued, retired, nreq, ticks, call>>

FlightBeginAction == \E r \in Flights : FlightBegin(r)
FlightStoreAction == \E r \in Flights : FlightStore(r)
FlightFinishAction == \E r \in Flights : FlightFinish(r)

NextFlight ==
    \/ TickAction
    \/ RateCsrfTokenRequest
    \/ FlightBeginAction
    \/ FlightStoreAction
    \/ FlightFinishAction

SpecFlight == Init /\ [][NextFlight]_vars

\* every operation of the pipeline on the sessions of two clients: token
\* issue, security events with the client's token or a truncated one,
\* uploads, expiry of a session, and the clock
TokenFiles ==
    {NoFile}
    \cup { [present |-> TRUE, filename |-> F_png, content |-> c, oversize |-> FALSE] :
              c \in Contents }

TokenSecurityEventRequest ==
    \E s \in Sessions, ip \in ClientIPs, body \in RateBodies :
        \E token \in {session[s].csrf_token, <<"t", "k">>} :
            Counted(SecurityEvent(s, ip, token, body))
TokenUploadRequest ==
    \E s \in Sessions, file \in TokenFiles :
        Counted(Upload(s, session[s].csrf_token, file))

NextToken ==
    \/ TickAction
    \/ ExpireAction
    \/ CsrfTokenRequest
    \/ TokenSecurityEventRequest
    \/ TokenUploadRequest

SpecToken == Init /\ [][NextToken]_vars

----------------------------------------------------------------------------
(* Properties *)

ViewRan(trace) == \E i \in 1..Len(trace) : trace[i] = Stage("view", 0)
StageIndex(trace, name) ==
    IF \E i \in 1..Len(trace) : trace[i] = Stage(name, 0)
    THEN MinOf({i \in 1..Len(trace) : trace[i] = Stage(name, 0)})
    ELSE 0
HeaderNames(headers) == {h[1] : h \in headers}
HasToken(s) == "csrf_token" \in session[s].keys

\* C1: a POST to the upload route or to the security-event route whose
\* CSRF verification fails is answered with the CSRF error (403), and
\* the view does not run: no file is written and nothing is logged.
C1_CsrfFailureRejected ==
    (/\ resp.route \in {"upload", "security_event"}
     /\ resp.method \in MutatingMethods
     /\ ~resp.csrf_valid)
    => /\ resp.status = 403
       /\ resp.body = "CSRF token validation failed"
       /\ ~ViewRan(resp.trace)
       /\ ~resp.wrote
       /\ resp.logged = 0

\* C2: when the limiter has let 10 requests of the session through in the
\* last 60 seconds, the next request of the session does not reach the
\* view, and the limiter answers it with 429 when it gets to decide
\* (the request has passed the CSRF check in front of it).
C2_EleventhDenied ==
    (resp.route = "security_event" /\ resp.prior >= RATE_MAX_REQUESTS)
    => /\ ~ViewRan(resp.trace)
       /\ resp.status \in {403, 429}
       /\ resp.csrf_valid => (resp.status = 429 /\ resp.body = "Rate limit exceeded")

C2_Witness ==
    /\ resp.route = "security_event"
    /\ resp.prior >= RATE_MAX_REQUESTS
    /\ resp.csrf_valid
    /\ resp.status = 429

\* C3: a security-event request with the session's valid token, within
\* the rate limit, whose JSON body has a non-empty event_type matching no
\* deny pattern, is answered {success: true} and the event is logged.
C3_ValidEventLogged ==
    (/\ resp.route = "security_event"
     /\ resp.csrf_valid
     /\ resp.prior < RATE_MAX_REQUESTS
     /\ resp.body_in.json = "object"
     /\ resp.body_in.event_type # <<>>
     /\ MatchingPatterns(resp.body_in.event_type) = {})
    => /\ resp.status = 200
       /\ resp.body = "Security event logged"
       /\ \E i \in 1..Len(appLog) : appLog[i].event = "security_event"

\* C4: an upload that fails a validation step is rejected without being
\* written, and the upload directory holds only files whose content
\* decodes as an image.
C4_OnlyValidatedFilesStored ==
    /\ (resp.route = "upload" /\ resp.status # 200) => ~resp.wrote
    /\ \A f \in uploads : f.content \in ImageContents

IssuedFor(s) ==
    (IF HasToken(s) THEN {session[s].csrf_token} ELSE {})
    \cup {p[2] : p \in {q \in retired : q[1] = s}}

\* C6: a token issued for one session is rejected when presented
\* against any other session.
C6_TokenBoundToSession ==
    \A a \in Sessions, b \in Sessions :
        a # b => \A t \in IssuedFor(a) : ~validate_csrf_token(session[b], t)

C6_Witness ==
    /\ HasToken("A")
    /\ HasToken("B")
    /\ resp.route = "security_event"
    /\ resp.sid = "B"
    /\ resp.token = session["A"].csrf_token
    /\ resp.status = 403

\* C7: the token bound to a session that has expired fails verification
\* for that client from then on, also after a new token is issued.
C7_ExpiredTokenRejected ==
    \A p \in retired : ~validate_csrf_token(session[p[1]], p[2])

C7_Witness ==
    \E p \in retired :
        /\ HasToken(p[1])
        /\ resp.route = "security_event"
        /\ resp.sid = p[1]
        /\ resp.token = p[2]
        /\ resp.status = 403

\* C8: while a session has a bound token, no request changes it, the
\* token endpoint returns it, and no new token is generated for it.
C8_IssueIdempotent ==
    [][\A s \in Sessions :
          HasToken(s) =>
            /\ "csrf_token" \in session'[s].keys
                  => session'[s].csrf_token = session[s].csrf_token
            /\ (nreq' # nreq /\ resp'.route = "csrf_token" /\ resp'.sid = s)
                  => (resp'.out = session[s].csrf_token /\ issued' = issued)]_vars

C8_Witness ==
    /\ resp.route = "csrf_token"
    /\ resp.had_token
    /\ HasToken(resp.sid)
    /\ resp.out = session[resp.sid].csrf_token

\* C9: on the security-event route the rate-limit check comes before the
\* CSRF verification, which comes before the view: a request over the
\* limit is answered 429 also when its CSRF token is invalid.
C9_RateLimitBeforeCsrf ==
    resp.route = "security_event"
    => /\ StageIndex(resp.trace, "rate_limit") = 1
       /\ StageIndex(resp.trace, "csrf_protected") # 1
       /\ resp.prior >= RATE_MAX_REQUESTS => resp.status = 429

RequiredSecurityHeaders ==
    {"X-Content-Type-Options", "X-Frame-Options", "Strict-Transport-Security",
     "Referrer-Policy", "Content-Security-Policy"}

\* C10: every response that leaves the process, on success and on every
\* failure path, carries the full set of security headers.
C10_AllResponsesFullHeaders ==
    resp.route # "none" => RequiredSecurityHeaders \subseteq HeaderNames(resp.headers)

\* the requests of the one client the limiter has let through in the
\* last 60 seconds, over all the sessions the client holds
RECURSIVE ClientAllowed(_)
ClientAllowed(S) ==
    IF S = {} THEN 0
    ELSE LET s == CHOOSE x \in S : TRUE
         IN  Len(RecentAllowed(allowed[s], now)) + ClientAllowed(S \ {s})

\* C11: the security-event route lets at most 10 requests of one client
\* through within any 60 seconds, whatever sessions the client presents.
C11_PerClientLimit == ClientAllowed(Sessions) <= RATE_MAX_REQUESTS

\* the timestamp log a session holds for the security-event route
StoredLog(s) ==
    LET sess == session[s]
        key == rate_limit_key(CHOOSE ip \in ClientIPs : TRUE, "log_security_event")
    IN  IF "rate_limits" \in sess.keys /\ key \in DOMAIN sess.rate_limits
        THEN sess.rate_limits[key] ELSE <<>>

LimiterReached(trace) ==
    \E i \in 1..Len(trace) : trace[i] = Stage("rate_limit", 0)

\* a step that is a security-event request reaching the limiter: the
\* response is the route's, the clock stands, and no session was emptied
LimiterStep ==
    /\ resp'.route = "security_event"
    /\ LimiterReached(resp'.trace)
    /\ now' = now
    /\ \A s \in Sessions : session'[s] = EmptySession => session[s] = EmptySession

\* C13: once a key was denied holding the limit of timestamps, the next
\* check on it, any time at or after 60 seconds since its recorded calls
\* and with no call in between, is allowed.
C13_RecoversAfterWindow ==
    [][ ( /\ resp.route = "security_event" /\ resp.status = 429
          /\ LimiterStep /\ resp'.sid = resp.sid
          /\ Len(StoredLog(resp.sid)) >= RATE_MAX_REQUESTS
          /\ \A i \in 1..Len(StoredLog(resp.sid)) :
                 now - StoredLog(resp.sid)[i] >= RATE_WINDOW )
        => resp'.status # 429 ]_vars

\* C18: a check that denies leaves the key's log as it was: no timestamp
\* is recorded for the denied call.
\* The same for the check of the view's inner call: the log then holds
\* the timestamp of the outer, allowed check and nothing for the inner.
NestedDenied(trace) ==
    Len(trace) > 0 /\ trace[Len(trace)] = Stage("rate_limit", 2)
C18_DeniedNotRecorded ==
    [][ \A s \in Sessions :
          /\ (LimiterStep /\ resp'.sid = s /\ resp'.status = 429)
                => StoredLog(s)' = StoredLog(s)
          /\ (LimiterStep /\ resp'.sid = s /\ NestedDenied(resp'.trace))
                => StoredLog(s)' =
                     Append(recent_requests(StoredLog(s), now, RATE_WINDOW), now)
      ]_vars
C18_Witness ==
    /\ resp.route = "security_event" /\ resp.status = 429
    /\ Len(StoredLog(resp.sid)) = RATE_MAX_REQUESTS

\* C19: right after a check, allowed or denied, the key's stored log
\* holds no timestamp older than 60 seconds at the time of the check.
C19_StoredLogPruned ==
    [][ \A s \in Sessions :
          (LimiterStep /\ resp'.sid = s)
          => \A i \in 1..Len(StoredLog(s)') : now - StoredLog(s)'[i] <= RATE_WINDOW
      ]_vars

\* C14: no accepted upload is stored under the name of an earlier
\* accepted upload: any two accepted uploads keep distinct files.
C14_AcceptedUploadsDistinct ==
    (resp.route = "upload" /\ resp.status = 200) => ~resp.replaced

\* t holds the text lit somewhere
Contains(t, lit) ==
    \E i \in 1..(Len(t) - Len(lit) + 1) : Slice(t, i, i + Len(lit) - 1) = lit

\* the stored name is "upload_", digits, "_" and a rest: the position of
\* the "_" that ends the digits, 0 when the name has not that form
StampEnd(name) ==
    IF /\ Slice(name, 1, Len(L_upload)) = L_upload
       /\ \E k \in (Len(L_upload) + 2)..Len(name) :
             /\ name[k] = "_"
             /\ \A m \in (Len(L_upload) + 1)..(k - 1) : name[m] \in Digits
    THEN MinOf({k \in (Len(L_upload) + 2)..Len(name) : name[k] = "_"})
    ELSE 0
SanitizedPart(name) == Slice(name, StampEnd(name) + 1, Len(name))

\* C15: the name an accepted upload is stored under holds no "/", no "\"
\* and no "..", has the form upload_<unix time>_<sanitized name>, and its
\* sanitized part is at most 100 characters long.
C15_StoredNameSafe ==
    (resp.route = "upload" /\ resp.status = 200)
    => /\ ~Contains(resp.out, <<"/">>)
       /\ ~Contains(resp.out, <<"\\">>)
       /\ ~Contains(resp.out, <<".", ".">>)
       /\ StampEnd(resp.out) # 0
       /\ Len(SanitizedPart(resp.out)) <= FILENAME_LIMIT

UploadErrorCodes == {"NO_FILE", "INVALID_FILE_TYPE", "PROCESSING_ERROR"}

\* C17: every failure answer of the upload route carries success: false
\* and one of the three error codes: NO_FILE for a missing file field or
\* an empty filename, INVALID_FILE_TYPE for a disallowed or missing
\* extension, PROCESSING_ERROR for every other failure, the body over
\* the size limit included.
C17_UploadFailureCodes ==
    (resp.route = "upload" /\ resp.status # 200)
    => /\ resp.success = "false"
       /\ resp.body \in UploadErrorCodes
       /\ resp.body =
            IF resp.file.oversize THEN "PROCESSING_ERROR"
            ELSE IF ~resp.file.present \/ resp.file.filename = <<>> THEN "NO_FILE"
            ELSE IF LastDot(resp.file.filename) = 0 THEN "INVALID_FILE_TYPE"
            ELSE IF Lower(Slice(resp.file.filename, LastDot(resp.file.filename) + 1,
                                Len(resp.file.filename))) \notin ALLOWED_EXTENSIONS
                 THEN "INVALID_FILE_TYPE"
            ELSE "PROCESSING_ERROR"
C17_Witness ==
    /\ resp.route = "upload" /\ resp.file.oversize
    /\ resp.status = 500 /\ resp.body = "PROCESSING_ERROR"

\* the text holds a deny-listed pattern, in any casing, a script block
\* over several lines included
ContainsDenied(t) ==
    \/ \E i \in 1..Len(t) : ScriptBlockAt(t, i, TRUE)
    \/ \E p \in 1..Len(DANGEROUS_PATTERNS) : re_search(DANGEROUS_PATTERNS[p], t)

\* C16: for every text that holds a deny-listed pattern, sanitize_input
\* returns the empty string and records exactly one security event.
C16_DeniedTextEmptied ==
    (call.fn = "sanitize_input" /\ ContainsDenied(call.arg))
    => (call.out = <<>> /\ Len(call.logged) = 1)

\* the part of a name before its last dot
Stem(name) ==
    IF LastDot(name) = 0 THEN name ELSE Slice(name, 1, LastDot(name) - 1)

\* C20: the storage name derived from a filename always has a non-empty
\* stem: where sanitizing leaves none, a generated placeholder is used.
C20_PlaceholderStem ==
    (call.fn = "sanitize_filename_input") => Stem(call.out) # <<>>

\* no request of the session is in progress
Quiet == \A r \in Flights : flight[r].pc = "idle"

\* C12: with requests of one session served at once, the update of the
\* key's log is atomic: once the requests are done, every request the
\* limiter let through within the window has its timestamp in the log,
\* and the limiter has let at most 10 through within the window.
C12_AtomicLogUpdate ==
    Quiet =>
      /\ Len(RecentAllowed(allowed["A"], now)) <= Len(StoredLog("A"))
      /\ Len(RecentAllowed(allowed["A"], now)) <= RATE_MAX_REQUESTS

\* C21: a security-event request the limiter lets through adds exactly
\* one timestamp, its own, to the pruned log of its key.
C21_OneTimestampPerRequest ==
    [][ \A s \in Sessions :
          (LimiterStep /\ resp'.sid = s /\ LimiterAllowed(resp'.trace))
          => StoredLog(s)' =
               Append(recent_requests(StoredLog(s), now, RATE_WINDOW), now)
      ]_vars

\* the body of the request gives the view nothing to log: no JSON, an
\* empty object, or an event type that is empty once sanitized
RefusedBody(body) ==
    \/ body.json \in {"none", "empty"}
    \/ sanitize_input(body.event_type).out = <<>>

\* C22: a security-event request that has passed the CSRF guard and the
\* limiter and carries a body the view refuses is answered 400, the
\* view's own error, not an internal error.
C22_ClientErrorPassedThrough ==
    (resp.route = "security_event" /\ ViewRan(resp.trace) /\ RefusedBody(resp.body_in))
    => resp.status = 400

\* C23: a token bound to a session stays bound, and the same, through
\* every step of the pipeline; only the expiry of the session, which
\* retires the token, takes it away.
C23_TokenStable ==
    [][ \A s \in Sessions :
          (HasToken(s) /\ <<s, session[s].csrf_token>> \notin retired' \ retired)
          => (HasToken(s)' /\ session'[s].csrf_token = session[s].csrf_token)
      ]_vars
C23_Witness ==
    /\ resp.route = "security_event" /\ LimiterAllowed(resp.trace)
    /\ HasToken(resp.sid) /\ session[resp.sid].csrf_token = resp.token
    /\ uploads # {}

====
